---- MODULE Spec2Model ----
(***************************************************************************)
(* ElementalDB: the table engine (class Table), the table manager with its *)
(* snapshot files, authentication gate and lookup cache (class             *)
(* ElementalDB).                                                           *)
(*                                                                         *)
(* Conventions.  A Python dict is a TLA+ function whose DOMAIN is the set  *)
(* of keys.  A Python list is a sequence; list positions stored by the     *)
(* code (the index buckets) are kept 0-based as in the code, so position p *)
(* of self.records is records[p + 1] here.  Column values are atoms        *)
(* (strings); "30" stands for the Python int 30.                           *)
(***************************************************************************)
EXTENDS Integers, Sequences, FiniteSets, TLC

VARIABLES
    tbl,            \* a Table object used directly by a client of class Table
    tlast,          \* the last call on tbl and what it returned / raised
    auth_enabled,   \* ElementalDB.auth_enabled
    auth_data,      \* ElementalDB.auth_data     : email -> password hash
    current_user,   \* ElementalDB.current_user  : an email or None
    tables,         \* ElementalDB.tables        : name -> Table
    files,          \* the directory database/   : name -> bytes of <name>.json
    cache,          \* ElementalDB.cache         : (name, value, columns) -> results
    last,           \* the last call on the ElementalDB object and its outcome
    tasks,          \* the coroutines running ElementalDB calls on the event loop
    torn            \* files of database/ whose bytes are not a whole JSON document:
                    \* name -> size of the file (0: just truncated by open('wb'))

vars == <<tbl, tlast, auth_enabled, auth_data, current_user, tables, files, cache, last,
          tasks, torn>>

dbvars == <<auth_enabled, auth_data, current_user, tables, files, cache, last, tasks, torn>>

----------------------------------------------------------------------------
(* Bounds and input domains *)

MaxRecords == 2

MaxTblRecords == 3

None == "None"

UsersColumns == <<"id", "name", "age">>

PairColumns == <<"id", "name">>

Alice30 == <<"1", "Alice", "30">>

Alice31 == <<"1", "Alice", "31">>

Bob25 == <<"2", "Bob", "25">>

BobShort == <<"2", "Bob">>

Twice30 == <<"30", "Alice", "30">>

----------------------------------------------------------------------------
(* Python helpers *)

Range(s) == {s[i] : i \in DOMAIN s}

EmptyDict == [k \in {} |-> {}]

\* d[k] = v on a dict
DictPut(d, k, v) == [x \in DOMAIN d \cup {k} |-> IF x = k THEN v ELSE d[x]]

\* del d[k]
DictDel(d, k) == [x \in DOMAIN d \ {k} |-> d[x]]

\* d.setdefault(value, []).append(p)
SetDefaultAppend(d, value, p) ==
    DictPut(d, value, IF value \in DOMAIN d THEN Append(d[value], p) ELSE <<p>>)

\* list.remove(x): drops the first occurrence of x (Python raises ValueError when x
\* is absent; the index never lacks the position the code removes)
ListRemove(s, x) ==
    IF \E i \in DOMAIN s : s[i] = x
    THEN LET k == CHOOSE i \in DOMAIN s : s[i] = x /\ \A j \in 1..(i - 1) : s[j] # x
         IN  [i \in 1..(Len(s) - 1) |-> IF i < k THEN s[i] ELSE s[i + 1]]
    ELSE s

\* list.pop(k) with 0-based k: the list without that element
ListPop(s, k) == [i \in 1..(Len(s) - 1) |-> IF i <= k THEN s[i] ELSE s[i + 1]]

\* dict(zip(columns, record))
DictZip(columns, record) ==
    [c \in Range(columns) |-> record[CHOOSE i \in DOMAIN columns : columns[i] = c]]

----------------------------------------------------------------------------
(* class Table *)

NewTable(name, columns) ==
    [name |-> name, columns |-> columns, records |-> <<>>,
     indexed_data |-> [col \in Range(columns) |-> EmptyDict]]

\* IndexInsert left for later: the record is appended and its position is in no bucket
IndexInsert_deferred(indexed_data, record, p) == indexed_data

\* the loop "for col, value in record.items(): indexed_data[col].setdefault(value, []).append(p)"
IndexInsert(indexed_data, record, p) ==
    [col \in DOMAIN indexed_data |->
        IF col \in DOMAIN record
        THEN SetDefaultAppend(indexed_data[col], record[col], p)
        ELSE indexed_data[col]]

\* the loop "for col, value in old_record.items(): indexed_data[col][value].remove(p)"
IndexRemoveKeep(indexed_data, record, p) ==
    [col \in DOMAIN indexed_data |->
        IF col \in DOMAIN record /\ record[col] \in DOMAIN indexed_data[col]
        THEN DictPut(indexed_data[col], record[col],
                     ListRemove(indexed_data[col][record[col]], p))
        ELSE indexed_data[col]]

\* the same loop followed by "if not indexed_data[col][value]: del indexed_data[col][value]"
IndexRemoveDrop(indexed_data, record, p) ==
    LET kept == IndexRemoveKeep(indexed_data, record, p)
    IN  [col \in DOMAIN kept |->
            IF col \in DOMAIN record /\ record[col] \in DOMAIN kept[col]
               /\ kept[col][record[col]] = <<>>
            THEN DictDel(kept[col], record[col])
            ELSE kept[col]]

\* Renumber without the renumbering step: every bucket keeps its positions
Renumber_none(indexed_data, p) == indexed_data

\* Renumber with the threshold one too high: position p + 1 is left where it was
Renumber_late(indexed_data, p) ==
    [col \in DOMAIN indexed_data |->
        [value \in DOMAIN indexed_data[col] |->
            [k \in DOMAIN indexed_data[col][value] |->
                LET i == indexed_data[col][value][k]
                IN  IF i <= p + 1 THEN i ELSE i - 1]]]

\* "[i if i < row_number - 1 else i - 1 for i in bucket]" for every bucket of every column
Renumber(indexed_data, p) ==
    [col \in DOMAIN indexed_data |->
        [value \in DOMAIN indexed_data[col] |->
            [k \in DOMAIN indexed_data[col][value] |->
                LET i == indexed_data[col][value][k]
                IN  IF i < p THEN i ELSE i - 1]]]

RECURSIVE Table_add_records(_, _)
Table_add_records(t, records) ==
    IF records = <<>> THEN [err |-> "ok", table |-> t]
    ELSE LET record == Head(records)
         IN  IF Len(record) # Len(t.columns)
             THEN [err |-> "SchemaMismatch", table |-> t]
             ELSE LET record_dict == DictZip(t.columns, record)
                      appended == Append(t.records, record_dict)
                      t2 == [t EXCEPT !.records = appended,
                                      !.indexed_data =
                                          IndexInsert(t.indexed_data, record_dict,
                                                      Len(appended) - 1)]
                  IN  Table_add_records(t2, Tail(records))

\* "1 <= row_number <= len(self.records)"
RowInRange(row_number, n) == 1 <= row_number /\ row_number <= n

Table_update(t, row_number, data) ==
    IF ~RowInRange(row_number, Len(t.records))
    THEN [err |-> "OutOfRange", table |-> t]
    ELSE IF Len(data) # Len(t.columns)
    THEN [err |-> "SchemaMismatch", table |-> t]
    ELSE LET old_record == t.records[row_number]
             removed == IndexRemoveKeep(t.indexed_data, old_record, row_number - 1)
             new_record == DictZip(t.columns, data)
         IN  [err |-> "ok",
              table |-> [t EXCEPT !.records[row_number] = new_record,
                                  !.indexed_data =
                                      IndexInsert(removed, new_record, row_number - 1)]]

\* Table_delete without the bounds check raising: an out-of-range row is ignored
Table_delete_lenient(t, row_number) ==
    IF ~RowInRange(row_number, Len(t.records))
    THEN [err |-> "ok", table |-> t]
    ELSE LET record_to_delete == t.records[row_number]
             popped == ListPop(t.records, row_number - 1)
             removed == IndexRemoveDrop(t.indexed_data, record_to_delete, row_number - 1)
         IN  [err |-> "ok",
              table |-> [t EXCEPT !.records = popped,
                                  !.indexed_data = Renumber(removed, row_number - 1)]]

Table_delete(t, row_number) ==
    IF ~RowInRange(row_number, Len(t.records))
    THEN [err |-> "OutOfRange", table |-> t]
    ELSE LET record_to_delete == t.records[row_number]
             popped == ListPop(t.records, row_number - 1)
             removed == IndexRemoveDrop(t.indexed_data, record_to_delete, row_number - 1)
         IN  [err |-> "ok",
              table |-> [t EXCEPT !.records = popped,
                                  !.indexed_data = Renumber(removed, row_number - 1)]]

\* indexed_data.get(col, {}).get(value, [])
Bucket(t, col, value) ==
    IF col \in DOMAIN t.indexed_data /\ value \in DOMAIN t.indexed_data[col]
    THEN t.indexed_data[col][value]
    ELSE <<>>

RECURSIVE SearchDedup(_, _, _, _)
SearchDedup(t, value, in_columns, seen) ==
    IF in_columns = <<>> THEN <<>>
    ELSE LET b == SelectSeq(Bucket(t, Head(in_columns), value), LAMBDA i : i \notin seen)
         IN  [k \in DOMAIN b |-> t.records[b[k] + 1]]
             \o SearchDedup(t, value, Tail(in_columns), seen \cup Range(b))

\* Table_search returning each matching record once, whatever the number of
\* requested columns that hold the value
Table_search_dedup(t, value, in_columns) == SearchDedup(t, value, in_columns, {})

RECURSIVE Table_search(_, _, _)
Table_search(t, value, in_columns) ==
    IF in_columns = <<>> THEN <<>>
    ELSE LET b == Bucket(t, Head(in_columns), value)
         IN  [k \in DOMAIN b |-> t.records[b[k] + 1]]
             \o Table_search(t, value, Tail(in_columns))

to_dict(t) == [columns |-> t.columns, records |-> t.records]

RECURSIVE ReplayIndex(_, _, _)
\* "for index, record in enumerate(self.records): ..." from position p on
ReplayIndex(indexed_data, records, p) ==
    IF p >= Len(records) THEN indexed_data
    ELSE ReplayIndex(IndexInsert(indexed_data, records[p + 1], p), records, p + 1)

from_dict(t, data) ==
    [t EXCEPT !.columns = data.columns,
              !.records = data.records,
              !.indexed_data =
                  ReplayIndex([col \in Range(data.columns) |-> EmptyDict], data.records, 0)]

----------------------------------------------------------------------------
(* A client of class Table: one Table object, its methods called directly *)

TblColumnSets == {UsersColumns}

TblInputs == {Alice30, Bob25, Twice30, BobShort}

TblBatches == {<<r>> : r \in TblInputs} \cup {<<Alice30, Bob25>>, <<Bob25, BobShort>>}

TblSearchValues == {"Alice", "30"}

TblSearchColumns == {<<"name">>, <<"id", "age">>, <<"age", "nope">>}

NoCall == [op |-> "none", args |-> <<>>, err |-> "ok", result |-> <<>>]

InitTable ==
    /\ tbl \in {NewTable("Users", c) : c \in TblColumnSets}
    /\ tlast = NoCall
    /\ auth_enabled = FALSE
    /\ auth_data = EmptyDict
    /\ current_user = None
    /\ tables = EmptyDict
    /\ files = EmptyDict
    /\ cache = EmptyDict
    /\ last = [op |-> "none", name |-> "", args |-> <<>>, err |-> "ok", result |-> <<>>]
    /\ tasks = EmptyDict
    /\ torn = EmptyDict

CallAddRecords(records) ==
    /\ Len(tbl.records) + Len(records) <= MaxTblRecords
    /\ LET r == Table_add_records(tbl, records)
       IN  /\ tbl' = r.table
           /\ tlast' = [op |-> "add_records", args |-> <<records>>, err |-> r.err,
                        result |-> <<>>]
           /\ UNCHANGED dbvars

CallUpdate(row_number, data) ==
    LET r == Table_update(tbl, row_number, data)
    IN  /\ tbl' = r.table
        /\ tlast' = [op |-> "update", args |-> <<row_number, data>>, err |-> r.err,
                     result |-> <<>>]
        /\ UNCHANGED dbvars

CallDelete(row_number) ==
    LET r == Table_delete(tbl, row_number)
    IN  /\ tbl' = r.table
        /\ tlast' = [op |-> "delete", args |-> <<row_number>>, err |-> r.err, result |-> <<>>]
        /\ UNCHANGED dbvars

CallSearch(value, in_columns) ==
    /\ tbl' = tbl
    /\ tlast' = [op |-> "search", args |-> <<value, in_columns>>, err |-> "ok",
                 result |-> Table_search(tbl, value, in_columns)]
    /\ UNCHANGED dbvars

\* Table(name, data['columns']).from_dict(data) with data = tbl.to_dict()
CallRoundTrip ==
    /\ tbl' = tbl
    /\ tlast' = [op |-> "from_dict", args |-> <<>>, err |-> "ok",
                 result |-> from_dict(NewTable(tbl.name, to_dict(tbl).columns), to_dict(tbl))]
    /\ UNCHANGED dbvars

NextTable ==
    \/ \E records \in TblBatches : CallAddRecords(records)
    \/ \E row_number \in 0..(MaxTblRecords + 1), data \in TblInputs : CallUpdate(row_number, data)
    \/ \E row_number \in 0..(MaxTblRecords + 1) : CallDelete(row_number)
    \/ \E value \in TblSearchValues, in_columns \in TblSearchColumns : CallSearch(value, in_columns)
    \/ CallRoundTrip

SpecTable == InitTable /\ [][NextTable]_vars

----------------------------------------------------------------------------
(* class ElementalDB *)

\* "not self.current_user" is false
SignedIn(user) == user # None /\ user # ""

\* bcrypt.hashpw(password, gensalt()); the salt is not modelled
hashpw(password) == <<"bcrypt", password>>

\* bcrypt.checkpw(password, hashed)
checkpw(password, hashed) == hashed = hashpw(password)

\* orjson.dumps(table.to_dict()): a JSON object per record, keys in the dict's order
orjson_dumps(data) ==
    [columns |-> data.columns,
     records |-> [i \in DOMAIN data.records |->
                     [j \in DOMAIN data.columns |->
                         <<data.columns[j], data.records[i][data.columns[j]]>>]]]

\* orjson.loads(bytes): each JSON object becomes a dict
orjson_loads(bytes) ==
    [columns |-> bytes.columns,
     records |-> [i \in DOMAIN bytes.records |->
                     LET obj == bytes.records[i]
                     IN  [c \in {obj[j][1] : j \in DOMAIN obj} |->
                             obj[CHOOSE j \in DOMAIN obj : obj[j][1] = c][2]]]]

\* save_table writing only the first snapshot of a table, later writes deferred
save_table_deferred(tabs, fs, table_name) ==
    IF table_name \in DOMAIN tabs /\ table_name \notin DOMAIN fs
    THEN DictPut(fs, table_name, orjson_dumps(to_dict(tabs[table_name])))
    ELSE fs

\* save_table writing the snapshot of every table in memory
save_table_all(tabs, fs, table_name) ==
    [n \in DOMAIN fs \cup DOMAIN tabs |->
        IF n \in DOMAIN tabs THEN orjson_dumps(to_dict(tabs[n])) ELSE fs[n]]

\* the body of save_table: the files after "await self.save_table(table_name)"
save_table(tabs, fs, table_name) ==
    IF table_name \in DOMAIN tabs
    THEN DictPut(fs, table_name, orjson_dumps(to_dict(tabs[table_name])))
    ELSE fs

\* run_in_executor(ProcessPoolExecutor(), table.update / table.delete, ...): the bound
\* method is pickled with its Table, the worker process mutates its own copy, and only
\* the return value (None) or the exception comes back to the caller's process
run_in_executor(t, outcome) == [err |-> outcome.err, table |-> t]

Outcome(op, name, args, err) ==
    [op |-> op, name |-> name, args |-> args, err |-> err, result |-> <<>>]

Raise(op, name, args, err) ==
    /\ last' = Outcome(op, name, args, err)
    /\ UNCHANGED <<tasks, torn, tbl, tlast, auth_enabled, auth_data, current_user, tables, files, cache>>

signup(email, password) ==
    IF email \in DOMAIN auth_data
    THEN Raise("signup", "", <<email, password>>, "AlreadyExists")
    ELSE /\ auth_data' = DictPut(auth_data, email, hashpw(password))
         /\ last' = Outcome("signup", "", <<email, password>>, "ok")
         /\ UNCHANGED <<tasks, torn, tbl, tlast, auth_enabled, current_user, tables, files, cache>>

signin(email, password) ==
    IF email \notin DOMAIN auth_data
    THEN Raise("signin", "", <<email, password>>, "NotFound")
    ELSE IF checkpw(password, auth_data[email])
    THEN /\ current_user' = email
         /\ last' = Outcome("signin", "", <<email, password>>, "ok")
         /\ UNCHANGED <<tasks, torn, tbl, tlast, auth_enabled, auth_data, tables, files, cache>>
    ELSE Raise("signin", "", <<email, password>>, "InvalidSecret")

logout ==
    /\ current_user' = IF SignedIn(current_user) THEN None ELSE current_user
    /\ last' = Outcome("logout", "", <<>>, "ok")
    /\ UNCHANGED <<tasks, torn, tbl, tlast, auth_enabled, auth_data, tables, files, cache>>

\* the gate with the sign-in test inverted
Gate_inverted == auth_enabled /\ SignedIn(current_user)

\* "self.auth_enabled and not self.current_user": the call raises PermissionError
Gate == auth_enabled /\ ~SignedIn(current_user)

\* table_create that replaces an existing table whatever overwrite is
table_create_always(name, columns, overwrite) ==
    IF Gate THEN Raise("table_create", name, <<columns, overwrite>>, "Unauthenticated")
    ELSE /\ tables' = DictPut(tables, name, NewTable(name, columns))
         /\ last' = Outcome("table_create", name, <<columns, overwrite>>, "ok")
         /\ UNCHANGED <<tasks, torn, tbl, tlast, auth_enabled, auth_data, current_user, files, cache>>

\* table_create that also writes the snapshot of the table it creates
table_create_saving(name, columns, overwrite) ==
    IF Gate THEN Raise("table_create", name, <<columns, overwrite>>, "Unauthenticated")
    ELSE IF name \in DOMAIN tables /\ ~overwrite
    THEN Raise("table_create", name, <<columns, overwrite>>, "TableExists")
    ELSE /\ tables' = DictPut(tables, name, NewTable(name, columns))
         /\ files' = DictPut(files, name, orjson_dumps(to_dict(NewTable(name, columns))))
         /\ last' = Outcome("table_create", name, <<columns, overwrite>>, "ok")
         /\ UNCHANGED <<tasks, torn, tbl, tlast, auth_enabled, auth_data, current_user, cache>>

table_create(name, columns, overwrite) ==
    IF Gate THEN Raise("table_create", name, <<columns, overwrite>>, "Unauthenticated")
    ELSE IF name \in DOMAIN tables /\ ~overwrite
    THEN Raise("table_create", name, <<columns, overwrite>>, "TableExists")
    ELSE /\ tables' = DictPut(tables, name, NewTable(name, columns))
         /\ last' = Outcome("table_create", name, <<columns, overwrite>>, "ok")
         /\ UNCHANGED <<tasks, torn, tbl, tlast, auth_enabled, auth_data, current_user, files, cache>>

CallSaveTable(table_name) ==
    /\ files' = save_table(tables, files, table_name)
    /\ last' = Outcome("save_table", table_name, <<>>, "ok")
    /\ UNCHANGED <<tasks, torn, tbl, tlast, auth_enabled, auth_data, current_user, tables, cache>>

load_table(table_name) ==
    IF table_name \in DOMAIN files
    THEN LET data == orjson_loads(files[table_name])
             table == from_dict(NewTable(table_name, data.columns), data)
         IN  /\ tables' = DictPut(tables, table_name, table)
             /\ last' = Outcome("load_table", table_name, <<>>, "ok")
             /\ UNCHANGED <<tasks, torn, tbl, tlast, auth_enabled, auth_data, current_user, files, cache>>
    ELSE Raise("load_table", table_name, <<>>, "MissingSnapshot")

\* the tail of add / update / delete once the gate and the table lookup are passed:
\* the Table method has run with `outcome`, and "await self.save_table(table_name)"
\* is reached only when it did not raise
Mutated(op, table_name, args, outcome) ==
    LET tabs == [tables EXCEPT ![table_name] = outcome.table]
    IN  /\ tables' = tabs
        /\ files' = IF outcome.err = "ok" THEN save_table(tabs, files, table_name) ELSE files
        /\ last' = Outcome(op, table_name, args, outcome.err)
        /\ UNCHANGED <<tasks, torn, tbl, tlast, auth_enabled, auth_data, current_user, cache>>

add(table_name, records) ==
    IF Gate THEN Raise("add", table_name, <<records>>, "Unauthenticated")
    ELSE IF table_name \notin DOMAIN tables
    THEN Raise("add", table_name, <<records>>, "TableNotFound")
    ELSE /\ Len(tables[table_name].records) + Len(records) <= MaxRecords
         /\ Mutated("add", table_name, <<records>>,
                    Table_add_records(tables[table_name], records))

update(table_name, row_number, data) ==
    IF Gate THEN Raise("update", table_name, <<row_number, data>>, "Unauthenticated")
    ELSE IF table_name \notin DOMAIN tables
    THEN Raise("update", table_name, <<row_number, data>>, "TableNotFound")
    ELSE LET table == tables[table_name]
         IN  Mutated("update", table_name, <<row_number, data>>,
                     run_in_executor(table, Table_update(table, row_number, data)))

delete(table_name, row_number) ==
    IF Gate THEN Raise("delete", table_name, <<row_number>>, "Unauthenticated")
    ELSE IF table_name \notin DOMAIN tables
    THEN Raise("delete", table_name, <<row_number>>, "TableNotFound")
    ELSE LET table == tables[table_name]
         IN  Mutated("delete", table_name, <<row_number>>,
                     run_in_executor(table, Table_delete(table, row_number)))

\* search that answers [] for an unknown table and caches it
search_lenient(table_name, value, in_columns) ==
    LET cache_key == <<table_name, value, in_columns>>
        results == IF cache_key \in DOMAIN cache THEN cache[cache_key]
                   ELSE IF table_name \notin DOMAIN tables THEN <<>>
                   ELSE Table_search(tables[table_name], value, in_columns)
    IN  /\ cache' = DictPut(cache, cache_key, results)
        /\ last' = [Outcome("search", table_name, <<value, in_columns>>, "ok")
                       EXCEPT !.result = results]
        /\ UNCHANGED <<tasks, torn, tbl, tlast, auth_enabled, auth_data, current_user, tables, files>>

\* search that ignores the cache on lookup and stores the fresh result
search_recompute(table_name, value, in_columns) ==
    IF table_name \notin DOMAIN tables
    THEN Raise("search", table_name, <<value, in_columns>>, "TableNotFound")
    ELSE LET results == Table_search(tables[table_name], value, in_columns)
         IN  /\ cache' = DictPut(cache, <<table_name, value, in_columns>>, results)
             /\ last' = [Outcome("search", table_name, <<value, in_columns>>, "ok")
                            EXCEPT !.result = results]
             /\ UNCHANGED <<tasks, torn, tbl, tlast, auth_enabled, auth_data, current_user, tables, files>>

search(table_name, value, in_columns) ==
    LET cache_key == <<table_name, value, in_columns>>
    IN  IF cache_key \in DOMAIN cache
        THEN /\ last' = [Outcome("search", table_name, <<value, in_columns>>, "ok")
                            EXCEPT !.result = cache[cache_key]]
             /\ UNCHANGED <<tasks, torn, tbl, tlast, auth_enabled, auth_data, current_user, tables, files, cache>>
        ELSE IF table_name \notin DOMAIN tables
        THEN Raise("search", table_name, <<value, in_columns>>, "TableNotFound")
        ELSE LET results == Table_search(tables[table_name], value, in_columns)
             IN  /\ cache' = DictPut(cache, cache_key, results)
                 /\ last' = [Outcome("search", table_name, <<value, in_columns>>, "ok")
                                EXCEPT !.result = results]
                 /\ UNCHANGED <<tasks, torn, tbl, tlast, auth_enabled, auth_data, current_user, tables, files>>

----------------------------------------------------------------------------
(* Calls on one ElementalDB object, issued one at a time *)

Emails == {"user@example.com"}

Passwords == {"password123", "wrong"}

TableNames == {"Users"}

CreateNames == {"Users"}

ColumnSets == {UsersColumns, PairColumns}

Batches == {<<Alice30>>, <<Bob25>>, <<Alice30, Bob25>>, <<Alice30, BobShort>>, <<BobShort>>}

UpdateData == {Alice31}

SearchQueries == {<<"Alice", <<"name">>>>, <<"30", <<"age">>>>}

Init ==
    /\ tbl = NewTable("Users", UsersColumns)
    /\ tlast = NoCall
    /\ auth_enabled \in BOOLEAN
    /\ auth_data = EmptyDict
    /\ current_user = None
    /\ tables = EmptyDict
    /\ files = EmptyDict
    /\ cache = EmptyDict
    /\ last = Outcome("none", "", <<>>, "ok")
    /\ tasks = EmptyDict
    /\ torn = EmptyDict

Next ==
    \/ \E email \in Emails : signup(email, "password123")
    \/ \E email \in Emails, password \in Passwords : signin(email, password)
    \/ logout
    \/ \E name \in CreateNames, columns \in ColumnSets, overwrite \in BOOLEAN :
           table_create(name, columns, overwrite)
    \/ \E name \in TableNames : CallSaveTable(name)
    \/ \E name \in TableNames : load_table(name)
    \/ \E name \in TableNames, records \in Batches : add(name, records)
    \/ \E name \in TableNames, row_number \in 0..(MaxRecords + 1), data \in UpdateData :
           update(name, row_number, data)
    \/ \E name \in TableNames, row_number \in 0..(MaxRecords + 1) : delete(name, row_number)
    \/ \E name \in TableNames, q \in SearchQueries : search(name, q[1], q[2])

Spec == Init /\ [][Next]_vars

----------------------------------------------------------------------------
(* Calls on one ElementalDB object without authentication, on two tables *)

TwoNames == {"Users", "Orders"}

TwoBatches == {<<Alice30>>, <<Bob25>>}

TwoRows == {1}

TwoQueries == {<<"Alice", <<"name">>>>}

InitTwo ==
    /\ tbl = NewTable("Users", UsersColumns)
    /\ tlast = NoCall
    /\ auth_enabled = FALSE
    /\ auth_data = EmptyDict
    /\ current_user = None
    /\ tables = EmptyDict
    /\ files = EmptyDict
    /\ cache = EmptyDict
    /\ last = Outcome("none", "", <<>>, "ok")
    /\ tasks = EmptyDict
    /\ torn = EmptyDict

NextTwo ==
    \/ \E name \in TwoNames, overwrite \in BOOLEAN : table_create(name, UsersColumns, overwrite)
    \/ \E name \in TwoNames : CallSaveTable(name)
    \/ \E name \in TwoNames : load_table(name)
    \/ \E name \in TwoNames, records \in TwoBatches : add(name, records)
    \/ \E name \in TwoNames, row_number \in TwoRows, data \in UpdateData :
           update(name, row_number, data)
    \/ \E name \in TwoNames, row_number \in TwoRows : delete(name, row_number)
    \/ \E name \in TwoNames, q \in TwoQueries : search(name, q[1], q[2])

SpecTwo == InitTwo /\ [][NextTwo]_vars

----------------------------------------------------------------------------
(* Calls on one ElementalDB object with authentication enabled; signup and signin
   accept any string as the email, the empty string included *)

AuthEmails == {"user@example.com", ""}

AuthBatches == {<<Alice30>>}

InitAuth ==
    /\ tbl = NewTable("Users", UsersColumns)
    /\ tlast = NoCall
    /\ auth_enabled = TRUE
    /\ auth_data = EmptyDict
    /\ current_user = None
    /\ tables = EmptyDict
    /\ files = EmptyDict
    /\ cache = EmptyDict
    /\ last = Outcome("none", "", <<>>, "ok")
    /\ tasks = EmptyDict
    /\ torn = EmptyDict

NextAuth ==
    \/ \E email \in AuthEmails, password \in Passwords : signup(email, password)
    \/ \E email \in AuthEmails, password \in Passwords : signin(email, password)
    \/ logout
    \/ \E overwrite \in BOOLEAN : table_create("Users", UsersColumns, overwrite)
    \/ \E records \in AuthBatches : add("Users", records)
    \/ \E row_number \in TwoRows, data \in UpdateData : update("Users", row_number, data)
    \/ \E row_number \in TwoRows : delete("Users", row_number)

SpecAuth == InitAuth /\ [][NextAuth]_vars

----------------------------------------------------------------------------
(* Calls on one ElementalDB object running as coroutines of one event loop.  A
   coroutine runs without interruption from one await to the next: each action below
   is one such stretch.  aiofiles runs open, write and close in the threads of the
   loop's default executor, so the file operations of different coroutines complete in
   any order. *)

Tasks == {"A", "B", "C"}

IdleTask ==
    [pc |-> "idle", op |-> "none", name |-> "", args |-> <<>>, err |-> "ok",
     result |-> <<>>, json_data |-> <<>>]

\* the coroutine of task is suspended at, or has returned from, the given place
Goto(task, pc, op, name, args, err) ==
    [tasks EXCEPT ![task] = [pc |-> pc, op |-> op, name |-> name, args |-> args,
                             err |-> err, result |-> <<>>, json_data |-> <<>>]]

\* the entry of save_table: "if table_name in self.tables" decides whether a file is
\* opened at all
SaveTableEntry(tabs, table_name) == IF table_name \in DOMAIN tabs THEN "opening" ELSE "done"

\* the length in bytes of a snapshot, counted in records: the snapshots of one table
\* that only grows are longer the more records they hold
Size(bytes) == 1 + Len(bytes.records)

\* the length in bytes of database/<table_name>.json
FileSize(table_name) ==
    IF table_name \in DOMAIN files THEN Size(files[table_name]) ELSE torn[table_name]

\* add up to "await self.save_table(table_name)" and into save_table up to
\* "async with aiofiles.open(...)"
co_add(task, table_name, records) ==
    /\ tasks[task].pc = "idle"
    /\ IF Gate
       THEN /\ tasks' = Goto(task, "done", "add", table_name, <<records>>, "Unauthenticated")
            /\ UNCHANGED tables
       ELSE IF table_name \notin DOMAIN tables
       THEN /\ tasks' = Goto(task, "done", "add", table_name, <<records>>, "TableNotFound")
            /\ UNCHANGED tables
       ELSE LET outcome == Table_add_records(tables[table_name], records)
                tabs == [tables EXCEPT ![table_name] = outcome.table]
            IN  /\ Len(tables[table_name].records) + Len(records) <= MaxRecords
                /\ tables' = tabs
                /\ tasks' = Goto(task, IF outcome.err = "ok"
                                       THEN SaveTableEntry(tabs, table_name) ELSE "done",
                                 "add", table_name, <<records>>, outcome.err)
    /\ UNCHANGED <<torn, tbl, tlast, auth_enabled, auth_data, current_user, files, cache, last>>

\* update up to "await ... run_in_executor(executor, table.update, row_number, data)":
\* the table is pickled for the worker as it is now
co_update(task, table_name, row_number, data) ==
    /\ tasks[task].pc = "idle"
    /\ tasks' =
          IF Gate
          THEN Goto(task, "done", "update", table_name, <<row_number, data>>, "Unauthenticated")
          ELSE IF table_name \notin DOMAIN tables
          THEN Goto(task, "done", "update", table_name, <<row_number, data>>, "TableNotFound")
          ELSE LET table == tables[table_name]
               IN  Goto(task, "executing", "update", table_name, <<row_number, data>>,
                        run_in_executor(table, Table_update(table, row_number, data)).err)
    /\ UNCHANGED <<torn, tbl, tlast, auth_enabled, auth_data, current_user, tables, files,
                   cache, last>>

\* delete up to "await ... run_in_executor(executor, table.delete, row_number)"
co_delete(task, table_name, row_number) ==
    /\ tasks[task].pc = "idle"
    /\ tasks' =
          IF Gate
          THEN Goto(task, "done", "delete", table_name, <<row_number>>, "Unauthenticated")
          ELSE IF table_name \notin DOMAIN tables
          THEN Goto(task, "done", "delete", table_name, <<row_number>>, "TableNotFound")
          ELSE LET table == tables[table_name]
               IN  Goto(task, "executing", "delete", table_name, <<row_number>>,
                        run_in_executor(table, Table_delete(table, row_number)).err)
    /\ UNCHANGED <<torn, tbl, tlast, auth_enabled, auth_data, current_user, tables, files,
                   cache, last>>

\* the worker process has answered: its exception is raised in the coroutine, or the
\* coroutine goes on into save_table up to "async with aiofiles.open(...)"
executor_done(task) ==
    /\ tasks[task].pc = "executing"
    /\ tasks' = [tasks EXCEPT ![task].pc =
                    IF tasks[task].err = "ok" THEN SaveTableEntry(tables, tasks[task].name)
                    ELSE "done"]
    /\ UNCHANGED <<torn, tbl, tlast, auth_enabled, auth_data, current_user, tables, files,
                   cache, last>>

\* "async with aiofiles.open(file_path, 'wb') as f": mode 'wb' creates the file or
\* truncates it to length 0
save_table_open(task) ==
    /\ tasks[task].pc = "opening"
    /\ files' = DictDel(files, tasks[task].name)
    /\ torn' = DictPut(torn, tasks[task].name, 0)
    /\ tasks' = [tasks EXCEPT ![task].pc = "opened"]
    /\ UNCHANGED <<tbl, tlast, auth_enabled, auth_data, current_user, tables, cache, last>>

\* "json_data = orjson.dumps(table.to_dict())" and "await f.write(json_data)": the
\* table is serialized as it is now, and the bytes go to the buffer of the file object
save_table_write(task) ==
    /\ tasks[task].pc = "opened"
    /\ tasks' = [tasks EXCEPT ![task].pc = "written",
                              ![task].json_data =
                                  orjson_dumps(to_dict(tables[tasks[task].name]))]
    /\ UNCHANGED <<torn, tbl, tlast, auth_enabled, auth_data, current_user, tables, files,
                   cache, last>>

\* the end of the "async with" block: close flushes the buffer at offset 0 of the file
\* as it is now; bytes of a longer content written through another handle stay after
\* the end of json_data, and the call returns
save_table_close(task) ==
    /\ tasks[task].pc = "written"
    /\ LET table_name == tasks[task].name
           json_data == tasks[task].json_data
       IN  IF Size(json_data) >= FileSize(table_name)
           THEN /\ files' = DictPut(files, table_name, json_data)
                /\ torn' = DictDel(torn, table_name)
           ELSE /\ files' = DictDel(files, table_name)
                /\ torn' = DictPut(torn, table_name, FileSize(table_name))
    /\ tasks' = [tasks EXCEPT ![task].pc = "done"]
    /\ UNCHANGED <<tbl, tlast, auth_enabled, auth_data, current_user, tables, cache, last>>

\* search has no await: it runs from its first line to its return in one stretch
co_search(task, table_name, value, in_columns) ==
    /\ tasks[task].pc = "idle"
    /\ LET cache_key == <<table_name, value, in_columns>>
           args == <<value, in_columns>>
       IN  IF cache_key \in DOMAIN cache
           THEN /\ tasks' = [Goto(task, "done", "search", table_name, args, "ok")
                                 EXCEPT ![task].result = cache[cache_key]]
                /\ UNCHANGED cache
           ELSE IF table_name \notin DOMAIN tables
           THEN /\ tasks' = Goto(task, "done", "search", table_name, args, "TableNotFound")
                /\ UNCHANGED cache
           ELSE LET results == Table_search(tables[table_name], value, in_columns)
                IN  /\ cache' = DictPut(cache, cache_key, results)
                    /\ tasks' = [Goto(task, "done", "search", table_name, args, "ok")
                                     EXCEPT ![task].result = results]
    /\ UNCHANGED <<torn, tbl, tlast, auth_enabled, auth_data, current_user, tables, files, last>>

ConcBatches == {<<Alice30>>, <<Bob25>>, <<Alice30, BobShort>>}

\* after ElementalDB(auth=False) and table_create('Users', ['id', 'name', 'age']),
\* with one coroutine per task about to be started
InitConc ==
    /\ tbl = NewTable("Users", UsersColumns)
    /\ tlast = NoCall
    /\ auth_enabled = FALSE
    /\ auth_data = EmptyDict
    /\ current_user = None
    /\ tables = DictPut(EmptyDict, "Users", NewTable("Users", UsersColumns))
    /\ files = EmptyDict
    /\ cache = EmptyDict
    /\ last = Outcome("table_create", "Users", <<UsersColumns, FALSE>>, "ok")
    /\ tasks = [task \in Tasks |-> IdleTask]
    /\ torn = EmptyDict

NextConc ==
    \/ \E task \in Tasks, records \in ConcBatches : co_add(task, "Users", records)
    \/ \E task \in Tasks, row_number \in 0..MaxRecords, data \in UpdateData :
           co_update(task, "Users", row_number, data)
    \/ \E task \in Tasks, row_number \in 0..MaxRecords : co_delete(task, "Users", row_number)
    \/ \E task \in Tasks, q \in TwoQueries : co_search(task, "Users", q[1], q[2])
    \/ \E task \in Tasks : executor_done(task)
    \/ \E task \in Tasks : save_table_open(task)
    \/ \E task \in Tasks : save_table_write(task)
    \/ \E task \in Tasks : save_table_close(task)

SpecConc == InitConc /\ [][NextConc]_vars

----------------------------------------------------------------------------
(* Properties *)

\* the positions 0 .. len(records) - 1 of a table
Positions(t) == 0..(Len(t.records) - 1)

\* the index of t agrees with its records
IndexConsistent(t) ==
    /\ \A c \in Range(t.columns) : \A p \in Positions(t) :
          LET value == t.records[p + 1][c]
          IN  /\ c \in DOMAIN t.indexed_data
              /\ value \in DOMAIN t.indexed_data[c]
              /\ p \in Range(t.indexed_data[c][value])
              /\ \A other \in DOMAIN t.indexed_data[c] \ {value} :
                    p \notin Range(t.indexed_data[c][other])
    /\ \A c \in DOMAIN t.indexed_data : \A value \in DOMAIN t.indexed_data[c] :
          \A p \in Range(t.indexed_data[c][value]) : p \in Positions(t)

\* C1: after every add_records, update and delete call on a table, failed calls
\* included, each position p is in the bucket of the value record p holds in each
\* column, in no other bucket of that column, and no bucket holds a position that
\* is not a position of the table.
C1_IndexConsistency == IndexConsistent(tbl)

\* C1 witness: a delete of the first record succeeded on a table that keeps at least
\* two records and has a bucket emptied by an earlier update.
C1_Witness ==
    /\ tlast.op = "delete" /\ tlast.err = "ok" /\ tlast.args = <<1>>
    /\ Len(tbl.records) >= 2
    /\ \E c \in DOMAIN tbl.indexed_data : \E value \in DOMAIN tbl.indexed_data[c] :
          tbl.indexed_data[c][value] = <<>>

\* C2 (as claimed): a successful ElementalDB.update(name, p, values) leaves values at
\* position p - 1 of tables[name], and a successful ElementalDB.delete(name, p) leaves
\* tables[name] one record shorter with the former record p at position p - 1.
C2_MutationReachesTable ==
    [][/\ (last'.op = "update" /\ last'.err = "ok") =>
              tables'[last'.name].records[last'.args[1]] =
                  DictZip(tables[last'.name].columns, last'.args[2])
       /\ (last'.op = "delete" /\ last'.err = "ok") =>
              LET before == tables[last'.name].records
                  after == tables'[last'.name].records
                  p == last'.args[1]
              IN  /\ Len(after) = Len(before) - 1
                  /\ p < Len(before) => after[p] = before[p + 1]]_vars

\* the records of Scenario A as the table holds them
AliceRecord30 == DictZip(UsersColumns, Alice30)

AliceRecord31 == DictZip(UsersColumns, Alice31)

BobRecord25 == DictZip(UsersColumns, Bob25)

\* the state Scenario B is in when update('Users', 1, (1,'Alice',31)) has returned:
\* two records of which the second is Bob, the earlier search for Alice answered with
\* the age-30 record, and no search for age 30 so far
ScenarioBUpdated ==
    /\ last.op = "update" /\ last.err = "ok" /\ last.name = "Users"
    /\ last.args = <<1, Alice31>>
    /\ tables["Users"].columns = UsersColumns
    /\ Len(tables["Users"].records) = 2
    /\ tables["Users"].records[2] = BobRecord25
    /\ <<"Users", "Alice", <<"name">>>> \in DOMAIN cache
    /\ cache[<<"Users", "Alice", <<"name">>>>] = <<AliceRecord30>>
    /\ <<"Users", "30", <<"age">>>> \notin DOMAIN cache

\* C3 (as claimed): in Scenario B the searches that follow the successful update see
\* it: search('Alice', ['name']) returns the record with age 31 and
\* search(30, ['age']) returns the empty list.
C3_ScenarioBVisible ==
    [][(ScenarioBUpdated /\ last'.op = "search" /\ last'.name = "Users") =>
          /\ last'.args = <<"Alice", <<"name">>>> => last'.result = <<AliceRecord31>>
          /\ last'.args = <<"30", <<"age">>>> => last'.result = <<>>]_vars

\* C4: when add, update or delete has returned successfully, the snapshot of the
\* table decodes to the columns and the ordered records of the in-memory table.
C4_SnapshotMatchesTable ==
    (last.op \in {"add", "update", "delete"} /\ last.err = "ok") =>
        /\ last.name \in DOMAIN files
        /\ orjson_loads(files[last.name]) = to_dict(tables[last.name])

\* C4 witness: a successful add has left two records in the table.
C4_Witness ==
    /\ last.op = "add" /\ last.err = "ok"
    /\ Len(tables[last.name].records) = 2

\* C5 (as claimed): an add that fails with SchemaMismatch leaves the tables and the
\* snapshots as they were before the call.
C5_FailedAddAllOrNothing ==
    [][(last'.op = "add" /\ last'.err = "SchemaMismatch") =>
          /\ tables' = tables
          /\ files' = files]_vars

\* the rows of a table with n records that are out of range: 0 and those above n
OutOfRangeRows(n) == {0} \cup ((n + 1)..(MaxRecords + 1))

\* C6: update and delete with a 1-based position 0 or above the record count fail
\* with OutOfRange and leave records, index and snapshot unchanged, for each table
\* size: Table.update and Table.delete return OutOfRange and the table as it was,
\* and ElementalDB.update and ElementalDB.delete fail with OutOfRange and change
\* neither the tables nor the snapshots.
C6_OutOfRangeRejected ==
    [][/\ \A name \in DOMAIN tables :
            \A row \in OutOfRangeRows(Len(tables[name].records)) :
                /\ Table_delete(tables[name], row)
                       = [err |-> "OutOfRange", table |-> tables[name]]
                /\ \A data \in UpdateData :
                       Table_update(tables[name], row, data)
                           = [err |-> "OutOfRange", table |-> tables[name]]
       /\ ( /\ last'.op \in {"update", "delete"}
            /\ ~(auth_enabled /\ current_user = None)
            /\ last'.name \in DOMAIN tables
            /\ last'.args[1] \in OutOfRangeRows(Len(tables[last'.name].records)) ) =>
              /\ last'.err = "OutOfRange"
              /\ tables' = tables
              /\ files' = files]_vars

\* C6 witness: an update of row 0 was refused on the empty table, at a moment when
\* the in-memory table and its snapshot differ.
C6_Witness ==
    /\ last.op = "update" /\ last.err = "OutOfRange" /\ last.args[1] = 0
    /\ tables[last.name].records = <<>>
    /\ last.name \in DOMAIN files
    /\ orjson_loads(files[last.name]) # to_dict(tables[last.name])

\* C7: with authentication enabled and nobody signed in, table_create, add, update
\* and delete fail with Unauthenticated and change no table and no snapshot.
C7_GateBlocksMutations ==
    [][( /\ auth_enabled /\ current_user = None
         /\ last'.op \in {"table_create", "add", "update", "delete"} ) =>
              /\ last'.err = "Unauthenticated"
              /\ tables' = tables
              /\ files' = files]_vars

\* C7 witness: an add was refused as Unauthenticated on an existing table with
\* records, after its creator logged out.
C7_Witness ==
    /\ last.op = "add" /\ last.err = "Unauthenticated"
    /\ last.name \in DOMAIN tables
    /\ tables[last.name].records # <<>>

\* the table rebuilt from the snapshot form of t
Rebuilt(t) == from_dict(NewTable(t.name, to_dict(t).columns), to_dict(t))

\* C8 (as claimed): the table rebuilt by from_dict from to_dict has the same columns,
\* the same ordered records, and for each column the same value keys with the same
\* set of positions under each key.
C8_RoundTripIdentical ==
    /\ Rebuilt(tbl).columns = tbl.columns
    /\ Rebuilt(tbl).records = tbl.records
    /\ \A c \in DOMAIN tbl.indexed_data :
          /\ DOMAIN Rebuilt(tbl).indexed_data[c] = DOMAIN tbl.indexed_data[c]
          /\ \A value \in DOMAIN tbl.indexed_data[c] :
                Range(Rebuilt(tbl).indexed_data[c][value])
                    = Range(tbl.indexed_data[c][value])

\* the positions whose record holds `value` in column col, found by scanning
Matches(t, value, col) ==
    {p \in Positions(t) : col \in DOMAIN t.records[p + 1] /\ t.records[p + 1][col] = value}

RECURSIVE MatchCount(_, _, _, _)
\* the number of matches in the first k columns of in_columns
MatchCount(t, value, in_columns, k) ==
    IF k = 0 THEN 0
    ELSE MatchCount(t, value, in_columns, k - 1)
             + Cardinality(Matches(t, value, in_columns[k]))

\* the part of a search result that belongs to the k-th requested column
Segment(t, value, in_columns, result, k) ==
    SubSeq(result, MatchCount(t, value, in_columns, k - 1) + 1,
                   MatchCount(t, value, in_columns, k))

\* C9: Table.search returns, column by column in list order, the records that hold
\* the value in that column: each matching position once, nothing else.
C9_SearchResult ==
    tlast.op = "search" =>
        LET value == tlast.args[1]
            in_columns == tlast.args[2]
            result == tlast.result
        IN  /\ Len(result) = MatchCount(tbl, value, in_columns, Len(in_columns))
            /\ \A k \in DOMAIN in_columns :
                  LET seg == Segment(tbl, value, in_columns, result, k)
                      ms == Matches(tbl, value, in_columns[k])
                  IN  \A r \in Range(tbl.records) \cup Range(seg) :
                         Cardinality({i \in DOMAIN seg : seg[i] = r})
                             = Cardinality({p \in ms : tbl.records[p + 1] = r})

\* C9 witness: a search over two columns returned the same record twice, once per
\* column, followed by nothing from a column the table does not have.
C9_Witness ==
    /\ tlast.op = "search" /\ tlast.args = <<"30", <<"id", "age">>>>
    /\ Len(tbl.records) = 3
    /\ Len(tlast.result) = 3
    /\ tlast.result[1] = DictZip(UsersColumns, Twice30)
    /\ tlast.result[1] \in {tlast.result[2], tlast.result[3]}

\* C10: a cache entry is never changed or dropped, a search whose key is cached
\* returns the cached result and touches nothing, and a search that returns a
\* result leaves it cached under its key.
C10_CacheNeverInvalidated ==
    [][/\ \A k \in DOMAIN cache : k \in DOMAIN cache' /\ cache'[k] = cache[k]
       /\ (last'.op = "search"
             /\ <<last'.name, last'.args[1], last'.args[2]>> \in DOMAIN cache) =>
              /\ last'.err = "ok"
              /\ last'.result = cache[<<last'.name, last'.args[1], last'.args[2]>>]
              /\ tables' = tables /\ files' = files /\ cache' = cache
       /\ (last'.op = "search" /\ last'.err = "ok") =>
              /\ <<last'.name, last'.args[1], last'.args[2]>> \in DOMAIN cache'
              /\ cache'[<<last'.name, last'.args[1], last'.args[2]>>] = last'.result]_vars

\* C10 witness: a search returned a result that the table no longer gives.
C10_Witness ==
    /\ last.op = "search" /\ last.err = "ok"
    /\ last.name \in DOMAIN tables
    /\ last.result # Table_search(tables[last.name], last.args[1], last.args[2])

\* the empty table with the given columns, as table_create leaves it
IsEmptyTable(t, columns) ==
    /\ t.columns = columns
    /\ t.records = <<>>
    /\ t.indexed_data = [c \in Range(columns) |-> EmptyDict]

\* what C11 says of a table_create step
TableCreateContract ==
    /\ (last'.name \in DOMAIN tables /\ ~last'.args[2]) =>
           /\ last'.err = "TableExists"
           /\ tables' = tables
    /\ last'.args[2] =>
           /\ last'.err = "ok"
           /\ last'.name \in DOMAIN tables'
           /\ IsEmptyTable(tables'[last'.name], last'.args[1])

\* C11 (as claimed): table_create with overwrite=False on an existing name fails with
\* TableExists and leaves the table unchanged; with overwrite=True it succeeds and
\* leaves the empty table with the given columns and an empty index.
C11_TableCreateAsClaimed == [][last'.op = "table_create" => TableCreateContract]_vars

\* C11 (amended): the same, for a table_create call that passes the authentication
\* gate (authentication disabled, or a principal signed in).
C11_TableCreate ==
    [][(last'.op = "table_create" /\ ~(auth_enabled /\ current_user = None)) =>
          TableCreateContract]_vars

\* C11 witness: a table_create without overwrite was refused on a table with records.
C11_Witness ==
    /\ last.op = "table_create" /\ last.err = "TableExists"
    /\ tables[last.name].records # <<>>

\* a call of add, update, delete or search on a name not in the table set, the search
\* not answered from the cache
UnknownTableCall ==
    /\ last'.op \in {"add", "update", "delete", "search"}
    /\ last'.name \notin DOMAIN tables
    /\ last'.op = "search" =>
           <<last'.name, last'.args[1], last'.args[2]>> \notin DOMAIN cache

\* C12 (as claimed): add, update, delete and an uncached search on an unknown table
\* name fail with TableNotFound and create no table, write no snapshot and store no
\* cache entry.
C12_UnknownTableAsClaimed ==
    [][UnknownTableCall =>
          /\ last'.err = "TableNotFound"
          /\ tables' = tables /\ files' = files /\ cache' = cache]_vars

\* C12 (amended): the same, except that add, update and delete fail with
\* Unauthenticated instead when authentication is enabled and nobody is signed in.
C12_UnknownTable ==
    [][UnknownTableCall =>
          /\ last'.err = IF last'.op # "search" /\ auth_enabled /\ current_user = None
                         THEN "Unauthenticated" ELSE "TableNotFound"
          /\ tables' = tables /\ files' = files /\ cache' = cache]_vars

\* C12 witness: an add by a signed-in principal was refused with TableNotFound.
C12_Witness ==
    /\ last.op = "add" /\ last.err = "TableNotFound"
    /\ auth_enabled /\ current_user # None
    /\ tables = EmptyDict /\ files = EmptyDict /\ cache = EmptyDict

\* the bucket that Table.delete(k) must leave for a bucket that held `old`: without
\* position k - 1, the positions above it one lower, the order kept
Renumbered(old, k) ==
    LET kept == SelectSeq(old, LAMBDA i : i # k - 1)
    IN  [j \in DOMAIN kept |-> IF kept[j] > k - 1 THEN kept[j] - 1 ELSE kept[j]]

\* C15: a successful Table.delete(k) removes position k - 1 from the buckets of the
\* deleted record's values and, in every bucket of every column, lowers each position
\* above k - 1 by one and leaves each position below k - 1 as it was.
C15_DeleteRenumbering ==
    [][(tlast'.op = "delete" /\ tlast'.err = "ok") =>
          LET k == tlast'.args[1]
              deleted == tbl.records[k]
          IN  \A c \in DOMAIN tbl.indexed_data : \A value \in DOMAIN tbl.indexed_data[c] :
                 LET old == tbl.indexed_data[c][value]
                 IN  /\ (value = deleted[c]) => k - 1 \in Range(old)
                     /\ IF value \in DOMAIN tbl'.indexed_data[c]
                        THEN tbl'.indexed_data[c][value] = Renumbered(old, k)
                        ELSE value = deleted[c] /\ Renumbered(old, k) = <<>>]_vars

\* C15 witness: the first of three records was deleted and a bucket of a value the
\* deleted record did not hold now holds the positions 0 and 1.
C15_Witness ==
    /\ tlast.op = "delete" /\ tlast.err = "ok" /\ tlast.args = <<1>>
    /\ Len(tbl.records) = 2
    /\ \E c \in DOMAIN tbl.indexed_data : \E value \in DOMAIN tbl.indexed_data[c] :
          Range(tbl.indexed_data[c][value]) = {0, 1}

\* C17: table_create leaves every snapshot as it is, and load_table rebuilds the
\* table from the snapshot as it is: columns and records of the loaded table are
\* those the snapshot holds, whatever table_create did to the in-memory table.
C17_CreateKeepsSnapshot ==
    [][/\ last'.op = "table_create" => files' = files
       /\ (last'.op = "load_table" /\ last'.err = "ok") =>
              /\ files' = files
              /\ to_dict(tables'[last'.name]) = orjson_loads(files[last'.name])]_vars

\* C17 witness: a table with a snapshot was overwritten with other columns and the
\* snapshot still holds the old columns and at least one record.
C17_Witness ==
    /\ last.op = "table_create" /\ last.err = "ok" /\ last.args[2]
    /\ last.name \in DOMAIN files
    /\ orjson_loads(files[last.name]).columns # tables[last.name].columns
    /\ orjson_loads(files[last.name]).records # <<>>

\* the tables and snapshots of every name other than `name` are the same after the step
OthersUnchanged(name) ==
    \A other \in (DOMAIN tables \cup DOMAIN tables' \cup DOMAIN files \cup DOMAIN files')
                   \ {name} :
        /\ other \in DOMAIN tables <=> other \in DOMAIN tables'
        /\ other \in DOMAIN tables => tables'[other] = tables[other]
        /\ other \in DOMAIN files <=> other \in DOMAIN files'
        /\ other \in DOMAIN files => files'[other] = files[other]

\* the cache after the step is the cache before it, with at most the entry of `key` added
CacheGainsOnly(key) ==
    /\ DOMAIN cache' \subseteq DOMAIN cache \cup {key}
    /\ \A k \in DOMAIN cache : k \in DOMAIN cache' /\ cache'[k] = cache[k]

\* C18: add, update, delete, table_create, save_table and load_table on one table leave
\* the columns, records, index and snapshot of every other table as they were; search
\* leaves every table and every snapshot as it was and changes the cache only by adding
\* the entry of its own (table, value, columns) key.
C18_OtherTablesUntouched ==
    [][/\ last'.op \in {"add", "update", "delete", "table_create", "save_table", "load_table"}
           => OthersUnchanged(last'.name)
       /\ last'.op = "search" =>
              /\ tables' = tables
              /\ files' = files
              /\ CacheGainsOnly(<<last'.name, last'.args[1], last'.args[2]>>)]_vars

\* C18 witness: an add on "Orders" has been acknowledged and saved while "Users" holds
\* a record, a snapshot and a cached search
C18_Witness ==
    /\ last.op = "add" /\ last.name = "Orders" /\ last.err = "ok"
    /\ "Users" \in DOMAIN tables /\ Len(tables["Users"].records) > 0
    /\ "Users" \in DOMAIN files /\ "Orders" \in DOMAIN files
    /\ <<"Users", "Alice", <<"name">>>> \in DOMAIN cache

GatedOps == {"table_create", "add", "update", "delete"}

\* C19 (as claimed): the principal changes only in signin and logout; a signup and a
\* failing signin leave it as it was; logout never fails; and a table_create, add,
\* update or delete passes the gate when it directly follows a successful signin, and
\* is refused when it directly follows a logout.
C19_PrincipalFollowsSignin ==
    [][/\ current_user' # current_user => last'.op \in {"signin", "logout"}
       /\ (last'.op = "signup" \/ (last'.op = "signin" /\ last'.err # "ok"))
              => current_user' = current_user
       /\ last'.op = "logout" => last'.err = "ok"
       /\ last'.op \in GatedOps =>
              /\ (last.op = "signin" /\ last.err = "ok") => last'.err # "Unauthenticated"
              /\ last.op = "logout" => last'.err = "Unauthenticated"]_vars

MutationOps == {"add", "update", "delete"}

\* the mutation call of task has started and has not returned
InProgress(task) ==
    /\ tasks[task].op \in MutationOps
    /\ tasks[task].pc \in {"executing", "opening", "opened", "written"}

\* the mutation call of task is past its in-memory mutation and its snapshot write
\* has not completed
Persisting(task) ==
    /\ tasks[task].op \in MutationOps
    /\ tasks[task].pc \in {"opening", "opened", "written"}

\* C13 (as claimed): while a mutation call is between its in-memory mutation and the
\* completion of its snapshot write, no other call mutates a table in memory.
C13_MutationsSerialized ==
    [][(\E task \in DOMAIN tasks : Persisting(task)) => tables' = tables]_vars

\* every position a search for value in in_columns reads from the index of t is a
\* position of t whose record holds value in that column
SearchReadsValid(t, value, in_columns) ==
    \A k \in DOMAIN in_columns :
        \A p \in Range(Bucket(t, in_columns[k], value)) :
            /\ p \in Positions(t)
            /\ t.records[p + 1][in_columns[k]] = value

\* C14: whenever an add, update or delete on a table is in progress, the table's
\* records and index satisfy the index-consistency invariant, and every position a
\* search would read from the index is a valid position holding the searched value.
C14_SearchSeesWholeIndex ==
    \A task \in DOMAIN tasks :
        (InProgress(task) /\ tasks[task].name \in DOMAIN tables) =>
            LET t == tables[tasks[task].name]
            IN  /\ IndexConsistent(t)
                /\ \A q \in TwoQueries : SearchReadsValid(t, q[1], q[2])

\* C14 witness: a search has returned the record of an add that is still writing its
\* snapshot
C14_Witness ==
    \E adding, searching \in DOMAIN tasks :
        /\ tasks[adding].op = "add" /\ tasks[adding].pc = "written"
        /\ tasks[adding].args = <<(<<Alice30>>)>>
        /\ tasks[searching].op = "search" /\ tasks[searching].pc = "done"
        /\ tasks[searching].result = <<AliceRecord30>>

\* at least two coroutines have run add to a successful return, and no coroutine has
\* made another call or is still running
AddsAcknowledged ==
    /\ \A task \in DOMAIN tasks :
          \/ tasks[task].pc = "idle"
          \/ tasks[task].pc = "done" /\ tasks[task].op = "add" /\ tasks[task].err = "ok"
    /\ \E a, b \in DOMAIN tasks : a # b /\ tasks[a].pc = "done" /\ tasks[b].pc = "done"

\* C16 (as claimed): once concurrent add calls on a table have all returned
\* successfully, the table's snapshot decodes to the columns and records the table has
\* in memory.
C16_OverlappingAddsDurable ==
    AddsAcknowledged =>
        \A task \in DOMAIN tasks :
            tasks[task].pc = "done" =>
                /\ tasks[task].name \in DOMAIN files
                /\ orjson_loads(files[tasks[task].name]) = to_dict(tables[tasks[task].name])

====
